---- MODULE Spec2Model ----
(***************************************************************************)
(* The Hand state machine of the UNO rules engine (src/src/model/hand.ts)  *)
(* over the Deck container (src/unnamed/part_001).  A Hand is modelled     *)
(* with the deck generator scaled down (fewer colours, numbers and copies) *)
(* and the injected shuffler as a nondeterministic choice among a family   *)
(* of permutations.                                                        *)
(***************************************************************************)
EXTENDS Integers, Sequences, FiniteSets, TLC

(* ------------------------------ bounds -------------------------------- *)
\* colours of the generated deck (the program has 4)
NumColors == 2
\* highest face number of the generated deck (the program has 9)
MaxNumber == 1
\* copies of each face number 1..MaxNumber per colour (the program has 2)
NumberedCopies == 1
\* copies of SKIP, REVERSE, DRAW per colour (the program has 2)
SpecialCopies == 1
\* copies of WILD and of WILD DRAW (the program has 4)
WildCopies == 1
\* players of a Hand range over MinPlayers..MaxPlayers (the program allows 10)
MaxPlayers == 3
\* cardsPerPlayer ranges over 1..MaxCardsPerPlayer
MaxCardsPerPlayer == 2
\* the shuffler's outcomes are the permutations shuffle(cards, k), k \in 0..MaxShuffle
MaxShuffle == 3
\* end callbacks registered on one Hand
MaxCallbacks == 2
\* retries of the setup loop of startGame that the model follows
MaxSetupRetries == 3
\* calls that change the Hand, followed from construction
MaxSteps == 4
\* cardsPerPlayer ranges over 1..MaxSetupCards where construction alone is followed
MaxSetupCards == 5
\* and the shuffler's outcomes over 0..MaxSetupShuffle
MaxSetupShuffle == 11

(* ------------------------- program constants -------------------------- *)
MinPlayers == 2
DrawTwo == 2
DrawFour == 4
UnoPenalty == 4
\* calculateScore: the points of SKIP, REVERSE, DRAW and of WILD, WILD DRAW
SpecialScore == 20
WildScore == 50
\* score() while the hand is in progress (undefined)
NoScore == -1

\* the value of an absent player index (undefined): _winner before the end
NoPlayer == -1
\* the value of an absent number (undefined)
NoNumber == -1
\* the value of an absent colour or chosenColor (undefined)
NoColor == "NONE"

AllColors == <<"RED", "BLUE", "GREEN", "YELLOW">>
colors == SubSeq(AllColors, 1, NumColors)
ColorSet == {colors[i] : i \in 1..Len(colors)}

Card(t, c, num) == [id |-> 0, type |-> t, color |-> c, number |-> num]
\* the result of deal() or top() on an empty Deck, and an unset lastPlayedCard
NoCard == Card("NONE", NoColor, NoNumber)

RECURSIVE Flatten(_)
Flatten(ss) == IF ss = <<>> THEN <<>> ELSE Head(ss) \o Flatten(Tail(ss))

\* Deck.createInitialDeck: numbered cards per colour, then the special cards
\* per colour, then the wild cards; every card is a distinct object (id)
createInitialDeck ==
  LET numbered(c) ==
        <<Card("NUMBERED", c, 0)>> \o
        Flatten([i \in 1..MaxNumber |->
                   [j \in 1..NumberedCopies |-> Card("NUMBERED", c, i)]])
      special(c) ==
        Flatten([i \in 1..SpecialCopies |->
                   <<Card("SKIP", c, NoNumber), Card("REVERSE", c, NoNumber),
                     Card("DRAW", c, NoNumber)>>])
      wilds ==
        Flatten([i \in 1..WildCopies |->
                   <<Card("WILD", NoColor, NoNumber),
                     Card("WILD DRAW", NoColor, NoNumber)>>])
      all == Flatten([ci \in 1..NumColors |-> numbered(colors[ci])]) \o
             Flatten([ci \in 1..NumColors |-> special(colors[ci])]) \o
             wilds
  IN [i \in 1..Len(all) |-> [all[i] EXCEPT !.id = i]]

DeckSize == Len(createInitialDeck)

(* ------------------------------- Deck --------------------------------- *)
\* Deck.deal: cards.shift() -- the removed card and what is left
dealCard(cards) == IF cards = <<>> THEN NoCard ELSE Head(cards)
dealRest(cards) == IF cards = <<>> THEN <<>> ELSE Tail(cards)
\* Deck.addToBottom: cards.push(card)
addToBottom(cards, card) == Append(cards, card)
\* Deck.size
size(cards) == Len(cards)
\* Deck.top: cards[cards.length - 1]
top(cards) == IF cards = <<>> THEN NoCard ELSE cards[Len(cards)]
\* Deck.setTopCard: [card, ...cards]
setTopCard(cards, card) == <<card>> \o cards

\* Deck.shuffle(shuffler): the shuffler permutes the array in place.  Outcome k
\* rotates the cards left by k \div 2 places and reverses them when k is odd.
ShuffleChoices == 0..MaxShuffle
shuffle(cards, k) ==
  LET len == Len(cards)
      r == IF len = 0 THEN 0 ELSE (k \div 2) % len
      rot == [i \in 1..len |-> cards[((i - 1 + r) % len) + 1]]
  IN IF k % 2 = 1 THEN [i \in 1..len |-> rot[len + 1 - i]] ELSE rot

(* ------------------------------- Hand --------------------------------- *)
VARIABLES
  playerCount,        \* players.length
  dealer,             \* _dealer
  discardPile,        \* _discardPile.cards
  drawPile,           \* _drawPile.cards
  playerHands,        \* playerHands[i], i \in 0..playerCount-1
  currentPlayerIndex,
  direction,
  hasEnded,           \* _hasEnded
  winner,             \* _winner
  onEndCallbacks,     \* the number of registered end callbacks
  unoSaid,
  lastPlayedCard,
  callbackLog,        \* the invocations of end callbacks, in order
  lastCall,           \* the last call that changed the Hand, and how it returned
  steps,              \* the calls so far that changed the Hand
  game                \* the UnoGame the Hand belongs to, NoGame for a Hand alone

vars == <<playerCount, dealer, discardPile, drawPile, playerHands,
          currentPlayerIndex, direction, hasEnded, winner, onEndCallbacks,
          unoSaid, lastPlayedCard, callbackLog, lastCall, steps, game>>

\* a Hand made by its constructor alone has no UnoGame around it
NoGame ==
  [scores |-> [p \in {} |-> 0], targetScore |-> 0, cardsPerPlayer |-> 0,
   currentHand |-> FALSE]

\* the fields of the Hand as one value, for the helpers that update it in steps
State ==
  [n |-> playerCount, dealer |-> dealer, discard |-> discardPile,
   draw |-> drawPile, hands |-> playerHands, cur |-> currentPlayerIndex,
   dir |-> direction, ended |-> hasEnded, win |-> winner,
   cbs |-> onEndCallbacks, uno |-> unoSaid, last |-> lastPlayedCard,
   log |-> callbackLog]

Players(S) == 0..(S.n - 1)

\* nextTurn without the direction: the turn always passes to the next index
nextTurn_Forward(S) == [S EXCEPT !.cur = (S.cur + 1) % S.n]

\* nextTurn without the wrap around the table
nextTurn_NoWrap(S) == [S EXCEPT !.cur = S.cur + S.dir]

\* Hand.nextTurn
nextTurn(S) == [S EXCEPT !.cur = (S.cur + S.dir + S.n) % S.n]

\* reshuffleDeck without its last step: the kept card is not put back on the
\* discard pile
reshuffleDeck_DropsKept(S, k) ==
  LET moved == S.draw \o dealRest(S.discard)
  IN [S EXCEPT !.draw = IF size(moved) > 0 THEN shuffle(moved, k) ELSE moved,
               !.discard = <<>>]

\* Hand.reshuffleDeck: deal() takes the FIRST card of the discard array as the
\* card to keep; the others go to the bottom of the draw pile in their order,
\* the draw pile is shuffled (outcome k) when it is not empty, and the discard
\* pile becomes the kept card alone
reshuffleDeck(S, k) ==
  LET topCard == dealCard(S.discard)
      moved == S.draw \o dealRest(S.discard)
      shuffled == IF size(moved) > 0 THEN shuffle(moved, k) ELSE moved
  IN [S EXCEPT !.draw = shuffled,
               !.discard = IF topCard # NoCard THEN setTopCard(<<>>, topCard)
                           ELSE <<>>]

\* Hand.drawCards: count times, deal a card to the current player when there is
\* one, and reshuffle when that emptied the draw pile
RECURSIVE drawCards(_, _, _)
drawCards(S, count, k) ==
  IF count = 0 THEN S
  ELSE LET card == dealCard(S.draw)
           S1 == [S EXCEPT !.draw = dealRest(S.draw),
                           !.hands[S.cur] = Append(@, card)]
           S2 == IF card = NoCard THEN S
                 ELSE IF size(S1.draw) = 0 THEN reshuffleDeck(S1, k) ELSE S1
       IN drawCards(S2, count - 1, k)

\* isValidPlay without the look at the hand: a WILD DRAW is always valid
isValidPlay_WildDrawAlways(S, card) ==
  IF S.last = NoCard THEN TRUE
  ELSE IF card.type = "WILD" \/ card.type = "WILD DRAW" THEN TRUE
  ELSE \/ card.color = S.last.color
       \/ card.type = S.last.type
       \/ /\ card.type = "NUMBERED"
          /\ S.last.type = "NUMBERED"
          /\ card.number = S.last.number

\* Hand.isValidPlay, for a card that is defined
isValidPlay(S, card) ==
  IF S.last = NoCard THEN TRUE
  ELSE IF card.type = "WILD" \/ card.type = "WILD DRAW" THEN
    IF card.type = "WILD DRAW"
    THEN ~ \E i \in 1..Len(S.hands[S.cur]) :
             S.hands[S.cur][i].color = S.last.color
    ELSE TRUE
  ELSE IF /\ card.type = "NUMBERED"
          /\ S.last.type = "NUMBERED"
          /\ card.number # S.last.number
          /\ card.color # S.last.color
  THEN FALSE
  ELSE \/ card.color = S.last.color
       \/ card.type = S.last.type
       \/ /\ card.type = "NUMBERED"
          /\ S.last.type = "NUMBERED"
          /\ card.number = S.last.number

\* Hand.canPlayAny
canPlayAny(S) ==
  \E i \in 1..Len(S.hands[S.cur]) : isValidPlay(S, S.hands[S.cur][i])

\* Hand.canPlay(cardIndex), cardIndex counted from 0
canPlay(S, cardIndex) ==
  IF S.ended THEN FALSE
  ELSE IF cardIndex < 0 \/ cardIndex >= Len(S.hands[S.cur]) THEN FALSE
  ELSE isValidPlay(S, S.hands[S.cur][cardIndex + 1])

\* card.color = chosenColor: the card is an object, so the assignment shows
\* wherever that object is held
setColor(S, id, c) ==
  LET paint(cards) ==
        [i \in 1..Len(cards) |->
           IF cards[i].id = id THEN [cards[i] EXCEPT !.color = c] ELSE cards[i]]
  IN [S EXCEPT !.discard = paint(@),
               !.draw = paint(@),
               !.hands = [p \in Players(S) |-> paint(S.hands[p])],
               !.last = IF @.id = id THEN [@ EXCEPT !.color = c] ELSE @]

\* the REVERSE case without the rule for two players
reverseEffect_FlipOnly(S) == [S EXCEPT !.dir = -1 * @]

\* Hand.applyCardEffect, case "REVERSE"
reverseEffect(S) ==
  LET R == [S EXCEPT !.dir = -1 * @]
  IN IF S.n = 2 THEN nextTurn(R) ELSE R

\* Hand.applyCardEffect, cases "DRAW" and "WILD DRAW": the next player draws
\* count cards (unless the hand has ended) and is passed over
forcedDraw(S, count, k) ==
  LET S1 == nextTurn(S)
      S2 == IF ~S1.ended THEN drawCards(S1, count, k) ELSE S1
  IN nextTurn(S2)

\* Hand.applyCardEffect
applyCardEffect(S, card, chosenColor, k) ==
  LET colored == IF chosenColor # NoColor THEN setColor(S, card.id, chosenColor)
                 ELSE S
      S1 == CASE card.type = "SKIP" -> nextTurn(S)
             [] card.type = "REVERSE" -> reverseEffect(S)
             [] card.type = "DRAW" -> forcedDraw(S, DrawTwo, k)
             [] card.type = "WILD" -> colored
             [] card.type = "WILD DRAW" -> forcedDraw(colored, DrawFour, k)
             [] OTHER -> S
  IN IF card.type # "DRAW" /\ card.type # "WILD DRAW" THEN nextTurn(S1) ELSE S1

\* what a call that returns normally records, and the errors the calls throw
Ok == "ok"
ErrEnded == "The hand has ended"
ErrInvalidPlay == "Invalid play"
ErrNoColor == "Must choose a color for wild cards"
ErrColor == "You can't choose a color for a numbered card"
ErrPlayerIndex == "Invalid player index"
ErrAccusedIndex == "Invalid accused player index"
ErrTypeError == "TypeError"

\* a call: its arguments, the player in turn when it was made, how it returned
Call(op, arg, color, result) ==
  [op |-> op, arg |-> arg, color |-> color, result |-> result,
   player |-> currentPlayerIndex]

\* Hand.draw
draw(S, k) ==
  IF S.ended THEN [S |-> S, result |-> ErrEnded]
  ELSE LET card == dealCard(S.draw)
           S1 == [S EXCEPT !.draw = dealRest(S.draw),
                           !.hands[S.cur] = Append(@, card)]
           S2 == IF size(S1.draw) = 0 THEN reshuffleDeck(S1, k) ELSE S1
           S3 == IF ~canPlayAny(S2) THEN nextTurn(S2) ELSE S2
       IN [S |-> IF card # NoCard THEN S3 ELSE S, result |-> Ok]

\* the end callbacks, each called with {winner: _winner}; the log keeps what
\* each saw: the winner it was given and hasEnded() at that moment
fireCallbacks(S) ==
  [S EXCEPT !.log = @ \o [j \in 1..S.cbs |->
                            [cb |-> j, winner |-> S.win, ended |-> S.ended]]]

\* the end of the hand with the callbacks called first, before _hasEnded and
\* _winner are set
endHand_CallbacksFirst(S) ==
  [fireCallbacks(S) EXCEPT !.ended = TRUE, !.win = S.cur]

\* the end of the hand without _hasEnded: the winner is set and the callbacks
\* are called
endHand_WinnerOnly(S) == fireCallbacks([S EXCEPT !.win = S.cur])

\* Hand.play, the end of the hand: _hasEnded, _winner, then the callbacks
endHand(S) == fireCallbacks([S EXCEPT !.ended = TRUE, !.win = S.cur])

\* the card at cardIndex (counted from 0) of the hand of the player in turn
cardAt(S, cardIndex) ==
  IF cardIndex >= 0 /\ cardIndex < Len(S.hands[S.cur])
  THEN S.hands[S.cur][cardIndex + 1]
  ELSE NoCard

\* Hand.play, the checks: the error thrown, or Ok
playError(S, cardIndex, chosenColor) ==
  LET card == cardAt(S, cardIndex)
  IN IF S.ended THEN ErrEnded
     ELSE IF card = NoCard THEN ErrTypeError
     ELSE IF ~isValidPlay(S, card) THEN ErrInvalidPlay
     ELSE IF (card.type = "WILD" \/ card.type = "WILD DRAW") /\ chosenColor = NoColor
     THEN ErrNoColor
     ELSE IF card.color # NoColor /\ chosenColor # NoColor THEN ErrColor
     ELSE Ok

\* the play that clears the UNO declaration of the player whatever is left in
\* the hand
playEffect_AlwaysClearsUno(S, cardIndex, chosenColor, k) ==
  LET hand == S.hands[S.cur]
      card == cardAt(S, cardIndex)
      rest == [i \in 1..(Len(hand) - 1) |->
                 IF i <= cardIndex THEN hand[i] ELSE hand[i + 1]]
      S2 == [S EXCEPT !.hands[S.cur] = rest,
                      !.discard = addToBottom(@, card),
                      !.last = card,
                      !.uno = @ \ {S.cur}]
  IN IF Len(rest) = 0
     THEN endHand(IF card.type = "DRAW" \/ card.type = "WILD DRAW"
                  THEN applyCardEffect(S2, card, chosenColor, k)
                  ELSE S2)
     ELSE applyCardEffect(S2, card, chosenColor, k)

\* Hand.play, after the checks: the card goes from the hand to the discard
\* pile, the UNO declaration is cleared, then the hand ends or the card's
\* effect applies
playEffect(S, cardIndex, chosenColor, k) ==
  LET hand == S.hands[S.cur]
      card == cardAt(S, cardIndex)
      rest == [i \in 1..(Len(hand) - 1) |->
                 IF i <= cardIndex THEN hand[i] ELSE hand[i + 1]]
      S1 == [S EXCEPT !.hands[S.cur] = rest,
                      !.discard = addToBottom(@, card),
                      !.last = card]
      S2 == IF Len(rest) # 1 THEN [S1 EXCEPT !.uno = @ \ {S.cur}] ELSE S1
  IN IF Len(rest) = 0
     THEN endHand(IF card.type = "DRAW" \/ card.type = "WILD DRAW"
                  THEN applyCardEffect(S2, card, chosenColor, k)
                  ELSE S2)
     ELSE applyCardEffect(S2, card, chosenColor, k)

\* play with the check of an extraneous colour made last, after the card has
\* left the hand and its effect has applied
play_LateColorCheck(S, cardIndex, chosenColor, k) ==
  LET err == playError(S, cardIndex, chosenColor)
  IN IF err = ErrColor
     THEN [S |-> playEffect(S, cardIndex, NoColor, k), result |-> ErrColor]
     ELSE IF err # Ok THEN [S |-> S, result |-> err]
     ELSE [S |-> playEffect(S, cardIndex, chosenColor, k), result |-> Ok]

\* Hand.play(cardIndex, chosenColor), cardIndex counted from 0
play(S, cardIndex, chosenColor, k) ==
  LET err == playError(S, cardIndex, chosenColor)
  IN IF err # Ok THEN [S |-> S, result |-> err]
     ELSE [S |-> playEffect(S, cardIndex, chosenColor, k), result |-> Ok]

\* sayUno without the check that the hand has not ended
sayUno_NoEndCheck(S, playerIndex) ==
  IF playerIndex < 0 \/ playerIndex >= S.n
  THEN [S |-> S, result |-> ErrPlayerIndex]
  ELSE IF \/ Len(S.hands[playerIndex]) = 1
          \/ S.cur = playerIndex /\ Len(S.hands[playerIndex]) = 2
  THEN [S |-> [S EXCEPT !.uno = @ \cup {playerIndex}], result |-> Ok]
  ELSE [S |-> S, result |-> Ok]

\* sayUno that takes a declaration with two cards in hand from any player, in
\* turn or not
sayUno_AnyTwoCards(S, playerIndex) ==
  IF S.ended THEN [S |-> S, result |-> ErrEnded]
  ELSE IF playerIndex < 0 \/ playerIndex >= S.n
  THEN [S |-> S, result |-> ErrPlayerIndex]
  ELSE IF Len(S.hands[playerIndex]) = 1 \/ Len(S.hands[playerIndex]) = 2
  THEN [S |-> [S EXCEPT !.uno = @ \cup {playerIndex}], result |-> Ok]
  ELSE [S |-> S, result |-> Ok]

\* Hand.sayUno(playerIndex)
sayUno(S, playerIndex) ==
  IF S.ended THEN [S |-> S, result |-> ErrEnded]
  ELSE IF playerIndex < 0 \/ playerIndex >= S.n
  THEN [S |-> S, result |-> ErrPlayerIndex]
  ELSE IF \/ Len(S.hands[playerIndex]) = 1
          \/ S.cur = playerIndex /\ Len(S.hands[playerIndex]) = 2
  THEN [S |-> [S EXCEPT !.uno = @ \cup {playerIndex}], result |-> Ok]
  ELSE [S |-> S, result |-> Ok]

\* catchUnoFailure with the penalty dealt before the look at the turn: an
\* accusation out of turn returns false after the accused has drawn
catchUnoFailure_DrawsFirst(S, accuser, accused, k) ==
  IF S.ended THEN [S |-> S, result |-> ErrEnded]
  ELSE IF accused < 0 \/ accused >= S.n
  THEN [S |-> S, result |-> ErrAccusedIndex]
  ELSE LET nextPlayerIndex == (accused + S.dir + S.n) % S.n
           currentPlayer == S.cur
           S1 == drawCards([S EXCEPT !.cur = accused], UnoPenalty, k)
           S2 == [S1 EXCEPT !.cur = currentPlayer, !.uno = @ \cup {accused}]
       IN IF Len(S.hands[accused]) = 1 /\ accused \notin S.uno
          THEN [S |-> S2,
                result |-> IF S.cur # nextPlayerIndex THEN "false" ELSE "true"]
          ELSE [S |-> S, result |-> "false"]

\* Hand.catchUnoFailure({accuser, accused})
catchUnoFailure(S, accuser, accused, k) ==
  IF S.ended THEN [S |-> S, result |-> ErrEnded]
  ELSE IF accused < 0 \/ accused >= S.n
  THEN [S |-> S, result |-> ErrAccusedIndex]
  ELSE LET nextPlayerIndex == (accused + S.dir + S.n) % S.n
           currentPlayer == S.cur
           S1 == drawCards([S EXCEPT !.cur = accused], UnoPenalty, k)
           S2 == [S1 EXCEPT !.cur = currentPlayer, !.uno = @ \cup {accused}]
       IN IF S.cur # nextPlayerIndex THEN [S |-> S, result |-> "false"]
          ELSE IF Len(S.hands[accused]) = 1 /\ accused \notin S.uno
          THEN [S |-> S2, result |-> "true"]
          ELSE [S |-> S, result |-> "false"]

\* Hand.onEnd(callback)
onEnd(S) == [S EXCEPT !.cbs = @ + 1]

\* playerInTurn without the look at _hasEnded
playerInTurn_Always(S) == S.cur

\* Hand.playerInTurn
playerInTurn(S) == IF S.ended THEN NoPlayer ELSE S.cur

\* Hand.calculateScore, the switch: the points of one card
cardScore(card) ==
  CASE card.type = "NUMBERED" -> IF card.number = NoNumber THEN 0 ELSE card.number
    [] card.type \in {"SKIP", "REVERSE", "DRAW"} -> SpecialScore
    [] card.type \in {"WILD", "WILD DRAW"} -> WildScore
    [] OTHER -> 0

\* the points of a sequence of cards
RECURSIVE handScore(_)
handScore(cards) ==
  IF cards = <<>> THEN 0 ELSE cardScore(Head(cards)) + handScore(Tail(cards))

\* Hand.calculateScore: the points of the hands of the players i # _winner,
\* from player i on
RECURSIVE calculateScore(_, _)
calculateScore(S, i) ==
  IF i >= S.n THEN 0
  ELSE (IF i # S.win THEN handScore(S.hands[i]) ELSE 0) + calculateScore(S, i + 1)

\* Hand.score
score(S) == IF ~S.ended THEN NoScore ELSE calculateScore(S, 0)

(* --------------------------- construction ----------------------------- *)
\* Hand.dealInitialCards: cardsPerPlayer cards to each player, in player order
RECURSIVE dealInitialCards(_, _, _)
dealInitialCards(S, i, cardsPerPlayer) ==
  IF i >= S.n THEN S
  ELSE LET got == SubSeq(S.draw, 1, IF cardsPerPlayer < Len(S.draw)
                                    THEN cardsPerPlayer ELSE Len(S.draw))
           left == SubSeq(S.draw, Len(got) + 1, Len(S.draw))
       IN dealInitialCards([S EXCEPT !.hands[i] = got, !.draw = left],
                           i + 1, cardsPerPlayer)

\* the setup without the loop: the first card dealt is the setup card, whatever
\* its type
firstDiscard_AcceptsWild(S, k, retries) ==
  LET firstCard == dealCard(S.draw)
  IN IF firstCard = NoCard THEN [S |-> S, firstCard |-> NoCard, found |-> TRUE]
     ELSE [S |-> [S EXCEPT !.draw = dealRest(S.draw), !.discard = <<firstCard>>,
                            !.last = firstCard],
           firstCard |-> firstCard, found |-> TRUE]

\* Hand.startGame, the loop: a WILD or WILD DRAW goes back to the bottom, the
\* pile is shuffled (outcome k) and the deal is retried; `retries` is how many
\* retries the model still follows (found = FALSE when it gives up)
RECURSIVE firstDiscard(_, _, _)
firstDiscard(S, k, retries) ==
  LET firstCard == dealCard(S.draw)
      S1 == [S EXCEPT !.draw = dealRest(S.draw)]
  IN IF firstCard = NoCard THEN [S |-> S, firstCard |-> NoCard, found |-> TRUE]
     ELSE IF firstCard.type = "WILD" \/ firstCard.type = "WILD DRAW"
     THEN IF retries = 0 THEN [S |-> S, firstCard |-> NoCard, found |-> FALSE]
          ELSE firstDiscard(
                 [S1 EXCEPT !.draw = shuffle(addToBottom(@, firstCard), k)],
                 k, retries - 1)
     ELSE [S |-> [S1 EXCEPT !.discard = <<firstCard>>, !.last = firstCard],
           firstCard |-> firstCard, found |-> TRUE]

\* the setup with a REVERSE that only flips the direction: the player after
\* the dealer starts
startGame_ReverseKeepsStart(S, k) ==
  LET F == firstDiscard(S, k, MaxSetupRetries)
      T == F.S
      E == IF F.firstCard.type = "REVERSE" THEN [T EXCEPT !.dir = -1]
           ELSE IF F.firstCard.type = "SKIP" THEN nextTurn(T)
           ELSE IF F.firstCard.type = "DRAW"
           THEN nextTurn(drawCards(T, DrawTwo, k))
           ELSE T
  IN [S |-> E, found |-> F.found]

\* Hand.startGame: the first discard, then its effect
startGame(S, k) ==
  LET F == firstDiscard(S, k, MaxSetupRetries)
      T == F.S
      E == IF F.firstCard.type = "REVERSE"
           THEN [T EXCEPT !.dir = -1, !.cur = (T.dealer - 1 + T.n) % T.n]
           ELSE IF F.firstCard.type = "SKIP" THEN nextTurn(T)
           ELSE IF F.firstCard.type = "DRAW"
           THEN nextTurn(drawCards(T, DrawTwo, k))
           ELSE T
  IN [S |-> E, found |-> F.found]

\* the constructor up to its call of startGame: the deck shuffled (outcome k0)
\* and the hands dealt
dealt(n, dlr, cardsPerPlayer, withOnEnd, k0) ==
  LET S0 == [n |-> n, dealer |-> dlr, discard |-> <<>>,
             draw |-> shuffle(createInitialDeck, k0),
             hands |-> [p \in 0..(n - 1) |-> <<>>],
             cur |-> (dlr + 1) % n, dir |-> 1, ended |-> FALSE,
             win |-> NoPlayer, cbs |-> IF withOnEnd THEN 1 ELSE 0,
             uno |-> {}, last |-> NoCard, log |-> <<>>]
  IN dealInitialCards(S0, 0, cardsPerPlayer)

\* new Hand({players, dealer, shuffler, cardsPerPlayer, onEnd}): k0 is the
\* outcome of the first shuffle, k that of the shuffles of the setup
construct(n, dlr, cardsPerPlayer, withOnEnd, k0, k) ==
  startGame(dealt(n, dlr, cardsPerPlayer, withOnEnd, k0), k)

(* ------------------------- the state machine -------------------------- *)
Holds(S) ==
  /\ playerCount = S.n
  /\ dealer = S.dealer
  /\ discardPile = S.discard
  /\ drawPile = S.draw
  /\ playerHands = S.hands
  /\ currentPlayerIndex = S.cur
  /\ direction = S.dir
  /\ hasEnded = S.ended
  /\ winner = S.win
  /\ onEndCallbacks = S.cbs
  /\ unoSaid = S.uno
  /\ lastPlayedCard = S.last
  /\ callbackLog = S.log

Becomes(S) ==
  /\ playerCount' = S.n
  /\ dealer' = S.dealer
  /\ discardPile' = S.discard
  /\ drawPile' = S.draw
  /\ playerHands' = S.hands
  /\ currentPlayerIndex' = S.cur
  /\ direction' = S.dir
  /\ hasEnded' = S.ended
  /\ winner' = S.win
  /\ onEndCallbacks' = S.cbs
  /\ unoSaid' = S.uno
  /\ lastPlayedCard' = S.last
  /\ callbackLog' = S.log

\* the Hands that construction gives with cardsPerPlayer in `cards` and the
\* shuffler's outcomes in `shuffles`
Constructed(cards, shuffles) ==
  \E n \in MinPlayers..MaxPlayers, cardsPerPlayer \in cards,
     withOnEnd \in BOOLEAN, k0 \in shuffles, k \in shuffles :
    \E dlr \in 0..(n - 1) :
      LET C == construct(n, dlr, cardsPerPlayer, withOnEnd, k0, k)
      IN /\ C.found
         /\ Holds(C.S)
         /\ lastCall = [op |-> "new", arg |-> cardsPerPlayer, color |-> NoColor,
                         result |-> Ok, player |-> NoPlayer]
         /\ steps = 0
         /\ game = NoGame

Init == Constructed(1..MaxCardsPerPlayer, ShuffleChoices)

\* the shuffler's outcomes that a call has to be followed under: all of them
\* when the call reaches the shuffler with cards to reorder (the results under
\* outcome 0, which keeps the order, and outcome 1, which reverses it, differ),
\* one otherwise
Outcomes(R0, R1) == IF R0 = R1 THEN {0} ELSE ShuffleChoices

\* a call that changes the Hand is a step and is recorded in lastCall; a call
\* that changes nothing (it threw, or had no effect) leaves every variable as
\* it is.  The model follows MaxSteps steps from construction.
Step(R, call) ==
  IF R.S = State THEN UNCHANGED vars
  ELSE /\ steps < MaxSteps
       /\ Becomes(R.S)
       /\ steps' = steps + 1
       /\ lastCall' = call
       /\ game' = game

Draw ==
  \E k \in Outcomes(draw(State, 0), draw(State, 1)) :
    LET R == draw(State, k)
    IN Step(R, Call("draw", NoPlayer, NoColor, R.result))

Play ==
  \E cardIndex \in 0..Len(playerHands[currentPlayerIndex]),
     chosenColor \in ColorSet \cup {NoColor} :
    \E k \in Outcomes(play(State, cardIndex, chosenColor, 0),
                      play(State, cardIndex, chosenColor, 1)) :
      LET R == play(State, cardIndex, chosenColor, k)
      IN Step(R, Call("play", cardIndex, chosenColor, R.result))

SayUno ==
  \E playerIndex \in -1..playerCount :
    LET R == sayUno(State, playerIndex)
    IN Step(R, Call("sayUno", playerIndex, NoColor, R.result))

CatchUnoFailure ==
  \E accuser \in 0..(playerCount - 1), accused \in -1..playerCount :
    \E k \in Outcomes(catchUnoFailure(State, accuser, accused, 0),
                      catchUnoFailure(State, accuser, accused, 1)) :
      LET R == catchUnoFailure(State, accuser, accused, k)
      IN Step(R, Call("catchUnoFailure", accused, NoColor, R.result))

OnEnd ==
  /\ onEndCallbacks < MaxCallbacks
  /\ Step([S |-> onEnd(State), result |-> Ok],
          Call("onEnd", NoPlayer, NoColor, Ok))

Next == Draw \/ Play \/ SayUno \/ CatchUnoFailure \/ OnEnd

Spec == Init /\ [][Next]_vars

\* construction alone, over more hand sizes and more outcomes of the shuffler,
\* followed by one call
SetupInit == Constructed(1..MaxSetupCards, 0..MaxSetupShuffle)
SetupNext == lastCall.op = "new" /\ Next
SetupSpec == SetupInit /\ [][SetupNext]_vars

(* --------------------------- the setup loop --------------------------- *)
\* the constructor followed through the loop of startGame one pass at a time,
\* with any outcome of the shuffler in every pass
WildTypes == {"WILD", "WILD DRAW"}

\* the constructor has dealt the hands and is about to enter the loop
LoopInit ==
  \E n \in MinPlayers..MaxPlayers, cardsPerPlayer \in 1..MaxSetupCards,
     withOnEnd \in BOOLEAN, k0 \in 0..MaxSetupShuffle :
    \E dlr \in 0..(n - 1) :
      /\ Holds(dealt(n, dlr, cardsPerPlayer, withOnEnd, k0))
      /\ lastCall = [op |-> "dealInitialCards", arg |-> cardsPerPlayer,
                      color |-> NoColor, result |-> Ok, player |-> NoPlayer]
      /\ steps = 0
      /\ game = NoGame

\* a pass that deals a WILD or WILD DRAW: the card goes to the bottom of the
\* pile, the pile is shuffled and the loop goes on
LoopRetry ==
  /\ lastCall.op = "dealInitialCards"
  /\ dealCard(drawPile).type \in WildTypes
  /\ \E k \in ShuffleChoices :
       drawPile' = shuffle(addToBottom(dealRest(drawPile), dealCard(drawPile)), k)
  /\ UNCHANGED <<playerCount, dealer, discardPile, playerHands,
                 currentPlayerIndex, direction, hasEnded, winner,
                 onEndCallbacks, unoSaid, lastPlayedCard, callbackLog,
                 lastCall, steps, game>>

\* a pass that deals another card, or none: the loop ends, the effect of the
\* first discard applies and the constructor returns
LoopExit ==
  /\ lastCall.op = "dealInitialCards"
  /\ dealCard(drawPile).type \notin WildTypes
  /\ \E k \in ShuffleChoices : Becomes(startGame(State, k).S)
  /\ lastCall' = [lastCall EXCEPT !.op = "new"]
  /\ UNCHANGED <<steps, game>>

LoopNext == LoopRetry \/ LoopExit

\* the loop keeps running while it can
LoopSpec == LoopInit /\ [][LoopNext]_vars /\ WF_vars(LoopNext)

(* ------------------------------- UnoGame ------------------------------ *)
\* the target scores and the number of calls a Game is followed under
LowTarget == 20
HighTarget == 100
MaxGameSteps == 3
TargetScores == {LowTarget, HighTarget}

\* UnoGame.winner: the first player whose score has reached the target
gameWinner(G) ==
  LET reached == {p \in DOMAIN G.scores : G.scores[p] >= G.targetScore}
  IN IF reached = {} THEN NoPlayer
     ELSE CHOOSE p \in reached : \A q \in reached : p <= q

\* the Hands a Game can construct: the randomizer picks the dealer and the
\* shuffler orders the deck
NewHands(G) ==
  {C.S : C \in {X \in {construct(Cardinality(DOMAIN G.scores), dlr,
                                 G.cardsPerPlayer, TRUE, k0, k) :
                          dlr \in DOMAIN G.scores,
                          k0 \in ShuffleChoices, k \in ShuffleChoices} :
                 X.found}}

\* startNewHand without the look at winner(): a new Hand every time
startNewHand_Always(G) ==
  {[currentHand |-> TRUE, S |-> S] : S \in NewHands(G)}

\* UnoGame.startNewHand: the values _currentHand can get, a new Hand or, once
\* the Game has a winner, undefined
startNewHand(G) ==
  IF gameWinner(G) = NoPlayer
  THEN {[currentHand |-> TRUE, S |-> S] : S \in NewHands(G)}
  ELSE {[currentHand |-> FALSE, S |-> <<>>]}

\* handleHandEnd with the Hand's score added to every player's score
handleHandEnd_CreditsAll(G, S) ==
  [G EXCEPT !.scores = [p \in DOMAIN G.scores |-> G.scores[p] + score(S)]]

\* UnoGame.handleHandEnd, up to its call of startNewHand: the ended Hand's
\* score goes to the winner named by the event
handleHandEnd(G, S) ==
  [G EXCEPT !.scores[S.win] = @ + score(S)]

\* new UnoGame(...)
GameInit ==
  \E n \in MinPlayers..MaxPlayers, cardsPerPlayer \in 1..MaxCardsPerPlayer,
     targetScore \in TargetScores :
    LET G == [scores |-> [p \in 0..(n - 1) |-> 0], targetScore |-> targetScore,
              cardsPerPlayer |-> cardsPerPlayer, currentHand |-> TRUE]
    IN \E N \in startNewHand(G) :
         /\ Holds(N.S)
         /\ lastCall = [op |-> "new", arg |-> cardsPerPlayer, color |-> NoColor,
                         result |-> Ok, player |-> NoPlayer]
         /\ steps = 0
         /\ game = G

\* a call on the Game's latest Hand.  When it ends the Hand, the Hand calls
\* handleHandEnd, which adds the score and starts the next Hand or, with a
\* winner, leaves the Game without a current Hand; the Hand variables then
\* keep the ended Hand, which callers may still hold.
GameStep(R, call) ==
  IF R.S = State THEN UNCHANGED vars
  ELSE /\ steps < MaxGameSteps
       /\ steps' = steps + 1
       /\ lastCall' = call
       /\ IF R.S.ended /\ ~hasEnded
          THEN LET G == handleHandEnd(game, R.S)
               IN \E N \in startNewHand(G) :
                    /\ game' = [G EXCEPT !.currentHand = N.currentHand]
                    /\ Becomes(IF N.currentHand THEN N.S ELSE R.S)
          ELSE /\ game' = game
               /\ Becomes(R.S)

GameDraw ==
  \E k \in Outcomes(draw(State, 0), draw(State, 1)) :
    LET R == draw(State, k)
    IN GameStep(R, Call("draw", NoPlayer, NoColor, R.result))

GamePlay ==
  \E cardIndex \in 0..Len(playerHands[currentPlayerIndex]),
     chosenColor \in ColorSet \cup {NoColor} :
    \E k \in Outcomes(play(State, cardIndex, chosenColor, 0),
                      play(State, cardIndex, chosenColor, 1)) :
      LET R == play(State, cardIndex, chosenColor, k)
      IN GameStep(R, Call("play", cardIndex, chosenColor, R.result))

GameSayUno ==
  \E playerIndex \in -1..playerCount :
    LET R == sayUno(State, playerIndex)
    IN GameStep(R, Call("sayUno", playerIndex, NoColor, R.result))

GameCatchUnoFailure ==
  \E accuser \in 0..(playerCount - 1), accused \in -1..playerCount :
    \E k \in Outcomes(catchUnoFailure(State, accuser, accused, 0),
                      catchUnoFailure(State, accuser, accused, 1)) :
      LET R == catchUnoFailure(State, accuser, accused, k)
      IN GameStep(R, Call("catchUnoFailure", accused, NoColor, R.result))

GameNext == GameDraw \/ GamePlay \/ GameSayUno \/ GameCatchUnoFailure

GameSpec == GameInit /\ [][GameNext]_vars

(* ------------------------------ inputs -------------------------------- *)
\* the arguments the calls are followed under, in the current state
CardIndexes == 0..Len(playerHands[currentPlayerIndex])
ChosenColors == ColorSet \cup {NoColor}
PlayerIndexes == -1..playerCount

\* every play call in the current state, with its arguments and its result
PlayCalls ==
  {[cardIndex |-> i, chosenColor |-> c, R |-> play(State, i, c, k)] :
     i \in CardIndexes, c \in ChosenColors, k \in ShuffleChoices}

\* the results of every draw, play, sayUno and catchUnoFailure call in the
\* current state
MutatingCalls ==
  {draw(State, k) : k \in ShuffleChoices}
  \cup {X.R : X \in PlayCalls}
  \cup {sayUno(State, i) : i \in PlayerIndexes}
  \cup {catchUnoFailure(State, a, i, k) :
          a \in PlayerIndexes, i \in PlayerIndexes, k \in ShuffleChoices}

\* a successful play: the card played, and whether it emptied the hand
Succeeds(X) == X.R.result = Ok
PlayedCard(X) == playerHands[currentPlayerIndex][X.cardIndex + 1]
WentOut(X) == X.R.S.hands[currentPlayerIndex] = <<>>
\* player p's neighbour j places on in direction d
Neighbour(p, d, j) == (p + j * d) % playerCount

(* ------------------------------ claims -------------------------------- *)
\* every card held anywhere in the Hand, as one sequence
AllCards ==
  Flatten([i \in 1..playerCount |-> playerHands[i - 1]]) \o drawPile \o discardPile

C2_WinnerIsWhoWentOut ==
  lastCall.op = "play" /\ playerHands[lastCall.player] = <<>> =>
    /\ winner = lastCall.player
    /\ \A j \in 1..Len(callbackLog) : callbackLog[j].winner = lastCall.player

\* every call in the current state that may change the Hand, onEnd included
AllCalls == MutatingCalls \cup {[S |-> onEnd(State), result |-> Ok]}

\* C3: every end callback registered before the hand ends is invoked exactly
\* once, by the play that ends the hand and after hasEnded() has become true;
\* none is invoked before that play, and none by any call after it
C3_CallbacksOnce ==
  /\ callbackLog = <<>>
  /\ [][/\ ~hasEnded' => callbackLog' = <<>>
        /\ ~hasEnded /\ hasEnded' =>
             /\ lastCall'.op = "play"
             /\ Len(callbackLog') = onEndCallbacks
             /\ \A j \in 1..onEndCallbacks :
                  callbackLog'[j].cb = j /\ callbackLog'[j].ended
        /\ hasEnded =>
             /\ callbackLog' = callbackLog
             /\ \A R \in AllCalls : R.S.log = callbackLog]_vars

\* C3 witness: the hand has ended with two callbacks registered, both called
C3_Witness ==
  hasEnded /\ onEndCallbacks = 2 /\ Len(callbackLog) = 2

\* C4: once hasEnded() is true, no call makes it false or changes winner(),
\* and playerInTurn() is undefined
C4_EndIsFinal ==
  hasEnded =>
    /\ playerInTurn(State) = NoPlayer
    /\ \A R \in AllCalls :
         R.S.ended /\ R.S.win = winner /\ playerInTurn(R.S) = NoPlayer

\* C4 witness: a play has ended the hand
C4_Witness ==
  hasEnded /\ lastCall.op = "play" /\ winner \in 0..(playerCount - 1)

\* C5: after the hand has ended, every draw, play, sayUno and catchUnoFailure
\* call throws and leaves the whole Hand as it is
C5_CallsAfterEndFail ==
  hasEnded => \A R \in MutatingCalls : R.result = ErrEnded /\ R.S = State

\* C5 witness: the hand has ended with cards left to draw, a card in the hand
\* of the player the turn stopped at, and a player holding one undeclared card
C5_Witness ==
  /\ hasEnded
  /\ drawPile # <<>>
  /\ playerHands[currentPlayerIndex] # <<>>
  /\ \E p \in 0..(playerCount - 1) : Len(playerHands[p]) = 1 /\ p \notin unoSaid

\* C6: a play call on a Hand in progress that is rejected (the card is not a
\* valid play, a wild card comes without a colour, or a colour comes with a
\* card that has one) leaves the whole Hand as it is
RejectedPlay == {ErrInvalidPlay, ErrNoColor, ErrColor}
C6_RejectedPlayChangesNothing ==
  ~hasEnded =>
    \A X \in PlayCalls : X.R.result \in RejectedPlay => X.R.S = State

\* C6 witness: a Hand in progress, after a call, in which plays are rejected
\* for each of the three reasons
C6_Witness ==
  /\ ~hasEnded
  /\ steps > 0
  /\ \A e \in RejectedPlay : \E X \in PlayCalls : X.R.result = e

\* the legality relation of the specification, for a card c against the last
\* played card L and the hand of the player in turn
Legal(c, L, hand) ==
  CASE c.type = "WILD" -> TRUE
    [] c.type = "WILD DRAW" -> \A i \in 1..Len(hand) : hand[i].color # L.color
    [] c.type = "NUMBERED" /\ L.type = "NUMBERED" ->
         c.number = L.number \/ c.color = L.color
    [] OTHER -> c.color = L.color \/ c.type = L.type

\* every card of the deck, the wild ones also as they are after a colour was
\* chosen for them
AnyCard ==
  LET deck == {createInitialDeck[i] : i \in 1..DeckSize}
  IN deck \cup {[c EXCEPT !.color = col] :
                  c \in {d \in deck : d.color = NoColor}, col \in ColorSet}

\* C7: for every card c and every defined last played card L, isValidPlay(c)
\* is the legality relation; for two NUMBERED cards it gives the same answer
\* with c and L exchanged; and a successful play puts a card on the discard
\* pile that was legal against the last played card
C7_IsValidPlayIsLegal ==
  /\ lastPlayedCard # NoCard =>
       \A c \in AnyCard :
         isValidPlay(State, c)
           = Legal(c, lastPlayedCard, playerHands[currentPlayerIndex])
  /\ \A c \in AnyCard, L \in AnyCard :
       c.type = "NUMBERED" /\ L.type = "NUMBERED" =>
         isValidPlay([State EXCEPT !.last = L], c)
           = isValidPlay([State EXCEPT !.last = c], L)
  /\ \A X \in PlayCalls :
       Succeeds(X) =>
         Legal(PlayedCard(X), lastPlayedCard, playerHands[currentPlayerIndex])

\* C7 witness: after a play, the player in turn holds a WILD DRAW that is not
\* valid, beside a card of the colour of the last played card
C7_Witness ==
  /\ lastCall.op = "play"
  /\ ~hasEnded
  /\ \E i \in 1..Len(playerHands[currentPlayerIndex]) :
       LET c == playerHands[currentPlayerIndex][i]
       IN c.type = "WILD DRAW" /\ ~isValidPlay(State, c)

\* C8 (as claimed): when the player in turn p plays a DRAW (a WILD DRAW) as
\* their last card, the next player in the direction of play holds 2 (4) more
\* cards after the play, and no other player's hand grows
C8_LastCardStillPenalises ==
  \A X \in PlayCalls :
    Succeeds(X) /\ WentOut(X) /\ PlayedCard(X).type \in {"DRAW", "WILD DRAW"} =>
      LET count == IF PlayedCard(X).type = "DRAW" THEN DrawTwo ELSE DrawFour
          next == Neighbour(currentPlayerIndex, direction, 1)
      IN \A q \in 0..(playerCount - 1) :
           IF q = next
           THEN Len(X.R.S.hands[q]) = Len(playerHands[q]) + count
           ELSE Len(X.R.S.hands[q]) <= Len(playerHands[q])

\* C9: after a successful play by p that does not empty p's hand, the player
\* in turn is p's neighbour in the direction of play for a NUMBERED or WILD
\* card and the neighbour after that one for a SKIP; the direction is unchanged
\* and no hand has grown
C9_TurnAfterPlainCard ==
  \A X \in PlayCalls :
    /\ Succeeds(X)
    /\ ~WentOut(X)
    /\ PlayedCard(X).type \in {"NUMBERED", "WILD", "SKIP"}
    => /\ X.R.S.cur = Neighbour(currentPlayerIndex, direction,
                                IF PlayedCard(X).type = "SKIP" THEN 2 ELSE 1)
       /\ X.R.S.dir = direction
       /\ \A q \in 0..(playerCount - 1) :
            Len(X.R.S.hands[q]) <= Len(playerHands[q])

\* C9 witness: with three players and play running backwards, a SKIP was
\* played by a player who still holds cards
C9_Witness ==
  /\ lastCall.op = "play"
  /\ lastPlayedCard.type = "SKIP"
  /\ ~hasEnded
  /\ playerCount = 3
  /\ direction = -1
  /\ currentPlayerIndex = (lastCall.player + 1) % 3

\* C10: after a successful play of a REVERSE by p that does not empty p's
\* hand, the direction is the opposite of what it was; with two players p is in
\* turn again, with more p's neighbour in the new direction
C10_TurnAfterReverse ==
  \A X \in PlayCalls :
    Succeeds(X) /\ ~WentOut(X) /\ PlayedCard(X).type = "REVERSE" =>
      /\ X.R.S.dir = -1 * direction
      /\ X.R.S.cur = IF playerCount = 2 THEN currentPlayerIndex
                     ELSE Neighbour(currentPlayerIndex, -1 * direction, 1)

\* C10 witness: a REVERSE was played in a Hand of two players, by a player who
\* still holds cards and is in turn again
C10_Witness ==
  /\ lastCall.op = "play"
  /\ lastPlayedCard.type = "REVERSE"
  /\ ~hasEnded
  /\ playerCount = 2
  /\ currentPlayerIndex = lastCall.player

\* C11 (as claimed): after a successful play of a DRAW (a WILD DRAW) by p that
\* does not empty p's hand, the next player in the direction of play holds
\* exactly 2 (4) more cards, no other player's hand grows, the direction is
\* unchanged and the player in turn is the neighbour after the penalised one
C11_ForcedDraw ==
  \A X \in PlayCalls :
    Succeeds(X) /\ ~WentOut(X) /\ PlayedCard(X).type \in {"DRAW", "WILD DRAW"} =>
      LET count == IF PlayedCard(X).type = "DRAW" THEN DrawTwo ELSE DrawFour
          next == Neighbour(currentPlayerIndex, direction, 1)
      IN /\ \A q \in 0..(playerCount - 1) :
              IF q = next
              THEN Len(X.R.S.hands[q]) = Len(playerHands[q]) + count
              ELSE Len(X.R.S.hands[q]) <= Len(playerHands[q])
         /\ X.R.S.dir = direction
         /\ X.R.S.cur = Neighbour(currentPlayerIndex, direction, 2)

\* C12 (as claimed): a draw() call on a Hand in progress moves exactly one
\* card, the first of the draw pile, to the hand of the player in turn p;
\* afterwards p is still in turn if p holds a card that is a valid play, and
\* p's neighbour in the direction of play is otherwise; the hand has not ended
\* and direction, UNO declarations, lastPlayedCard and the other players'
\* hands are as before
C12_DrawMovesOneCard ==
  ~hasEnded =>
    \A k \in ShuffleChoices :
      LET R == draw(State, k)
          p == currentPlayerIndex
      IN /\ R.result = Ok
         /\ drawPile # <<>>
         /\ R.S.hands[p] = Append(playerHands[p], Head(drawPile))
         /\ \A q \in 0..(playerCount - 1) : q # p => R.S.hands[q] = playerHands[q]
         /\ R.S.cur = IF canPlayAny([R.S EXCEPT !.cur = p]) THEN p
                      ELSE Neighbour(p, direction, 1)
         /\ ~R.S.ended
         /\ R.S.dir = direction
         /\ R.S.uno = unoSaid
         /\ R.S.last = lastPlayedCard

\* what construction was asked for: cardsPerPlayer, and the extra cards of the
\* player after the dealer when the setup card is a DRAW
NewCards == lastCall.arg
SetupExtra(p) ==
  IF lastPlayedCard.type = "DRAW" /\ p = (dealer + 1) % playerCount
  THEN DrawTwo ELSE 0

\* the state the claim describes after construction
SetupState ==
  /\ Len(discardPile) = 1
  /\ discardPile[1].type \notin {"WILD", "WILD DRAW"}
  /\ discardPile[1] = lastPlayedCard
  /\ \A p \in 0..(playerCount - 1) :
       Len(playerHands[p]) = NewCards + SetupExtra(p)
  /\ Len(drawPile) = DeckSize - 1 - playerCount * NewCards
                       - (IF lastPlayedCard.type = "DRAW" THEN DrawTwo ELSE 0)

\* C13 (as claimed): immediately after construction with n players and c cards
\* per player, n*c less than the size of the deck, the discard pile holds one
\* card, not a wild one, which is lastPlayedCard; every player holds c cards
\* (the player after the dealer c+2 when the setup card is a DRAW) and the draw
\* pile holds the rest
C13_AsClaimed ==
  lastCall.op = "new" /\ playerCount * NewCards < DeckSize => SetupState

\* C13 (amended): the same when n*c is at most the size of the deck less 3, so
\* that the setup card and two more cards are left after the deal
C13_SetupState ==
  lastCall.op = "new" /\ playerCount * NewCards + 1 + DrawTwo <= DeckSize =>
    SetupState

\* C13 witness: a Hand just constructed whose deal left exactly three cards,
\* the setup card a DRAW
C13_Witness ==
  /\ lastCall.op = "new"
  /\ playerCount * NewCards + 1 + DrawTwo = DeckSize
  /\ lastPlayedCard.type = "DRAW"
  /\ drawPile = <<>>

\* the player j places after the dealer, counting forwards
AfterDealer(j) == (dealer + j + playerCount) % playerCount

\* the turn and direction the claim gives for each type of setup card
SetupTurn ==
  CASE lastPlayedCard.type = "NUMBERED" ->
         currentPlayerIndex = AfterDealer(1) /\ direction = 1
    [] lastPlayedCard.type = "SKIP" ->
         currentPlayerIndex = AfterDealer(2) /\ direction = 1
    [] lastPlayedCard.type = "REVERSE" ->
         currentPlayerIndex = AfterDealer(-1) /\ direction = -1
    [] lastPlayedCard.type = "DRAW" ->
         currentPlayerIndex = AfterDealer(2) /\ direction = 1
    [] OTHER -> FALSE

\* C14 (as claimed): immediately after construction with dealer k the setup
\* card decides the player in turn and the direction: NUMBERED k+1 forwards,
\* SKIP k+2 forwards, REVERSE k-1 backwards, DRAW k+2 forwards with two extra
\* cards for player k+1 (all mod n)
C14_AsClaimed ==
  lastCall.op = "new" /\ lastPlayedCard # NoCard =>
    /\ SetupTurn
    /\ lastPlayedCard.type = "DRAW" =>
         Len(playerHands[AfterDealer(1)]) = NewCards + DrawTwo

\* C14 (amended): the same, the extra cards of player k+1 on a DRAW being two
\* or, when the deal left fewer, as many as the draw pile held
C14_SetupTurn ==
  lastCall.op = "new" /\ lastPlayedCard # NoCard =>
    /\ SetupTurn
    /\ lastPlayedCard.type = "DRAW" =>
         LET left == DeckSize - 1 - playerCount * NewCards
         IN Len(playerHands[AfterDealer(1)])
              = NewCards + (IF left < DrawTwo THEN left ELSE DrawTwo)

\* C14 witness: a Hand of three players just constructed on a DRAW, the player
\* after the dealer holding two extra cards and the player after that in turn
C14_Witness ==
  /\ lastCall.op = "new"
  /\ playerCount = 3
  /\ lastPlayedCard.type = "DRAW"
  /\ Len(playerHands[AfterDealer(1)]) = NewCards + DrawTwo
  /\ currentPlayerIndex = AfterDealer(2)

\* C15: sayUno(i) on a Hand in progress with a valid index i returns normally
\* and records a UNO declaration for i exactly when i holds one card, or is in
\* turn and holds two; otherwise it changes nothing; in every case hands,
\* piles, player in turn and direction (and every other field) stay
C15_SayUnoRecords ==
  ~hasEnded =>
    \A i \in 0..(playerCount - 1) :
      LET R == sayUno(State, i)
          timely == \/ Len(playerHands[i]) = 1
                    \/ i = currentPlayerIndex /\ Len(playerHands[i]) = 2
      IN /\ R.result = Ok
         /\ R.S = [State EXCEPT !.uno = IF timely THEN unoSaid \cup {i}
                                        ELSE unoSaid]

\* C15 witness: the player in turn, holding two cards, has just declared UNO,
\* while another player holds two cards and could not
C15_Witness ==
  /\ lastCall.op = "sayUno"
  /\ lastCall.arg = currentPlayerIndex
  /\ Len(playerHands[currentPlayerIndex]) = 2
  /\ currentPlayerIndex \in unoSaid
  /\ \E q \in 0..(playerCount - 1) :
       /\ q # currentPlayerIndex
       /\ Len(playerHands[q]) = 2
       /\ sayUno(State, q).S = State

\* C16 (as claimed): catchUnoFailure on a Hand in progress with a valid accused
\* returns true exactly when the player in turn is the neighbour of accused in
\* the direction of play, accused holds one card and has no UNO declaration
\* recorded; when it returns true accused holds 4 more cards, is recorded as
\* having declared UNO, and the player in turn and the direction are as
\* before; the accuser plays no part
C16_CatchUnoFailure ==
  ~hasEnded =>
    \A accuser \in PlayerIndexes, accused \in 0..(playerCount - 1),
       k \in ShuffleChoices :
      LET R == catchUnoFailure(State, accuser, accused, k)
          caught == /\ currentPlayerIndex = Neighbour(accused, direction, 1)
                    /\ Len(playerHands[accused]) = 1
                    /\ accused \notin unoSaid
      IN /\ R.result = IF caught THEN "true" ELSE "false"
         /\ R = catchUnoFailure(State, accused, accused, k)
         /\ caught =>
              /\ Len(R.S.hands[accused]) = Len(playerHands[accused]) + UnoPenalty
              /\ accused \in R.S.uno
              /\ R.S.cur = currentPlayerIndex
              /\ R.S.dir = direction

\* C17: a catchUnoFailure call that returns false leaves the whole Hand as it
\* is; and after a call that returns true, every catchUnoFailure call against
\* the same accused made next returns false and leaves the Hand as it is
C17_PenalisedOnce ==
  ~hasEnded =>
    \A accuser \in PlayerIndexes, accused \in 0..(playerCount - 1),
       k \in ShuffleChoices :
      LET R == catchUnoFailure(State, accuser, accused, k)
      IN /\ R.result = "false" => R.S = State
         /\ R.result = "true" =>
              \A again \in PlayerIndexes, k2 \in ShuffleChoices :
                LET R2 == catchUnoFailure(R.S, again, accused, k2)
                IN R2.result = "false" /\ R2.S = R.S

\* C17 witness: an accusation has just succeeded, the accused is still the
\* neighbour before the player in turn, and an accusation against another
\* player would return false
C17_Witness ==
  /\ lastCall.op = "catchUnoFailure"
  /\ lastCall.result = "true"
  /\ ~hasEnded
  /\ currentPlayerIndex = Neighbour(lastCall.arg, direction, 1)
  /\ catchUnoFailure(State, 0, lastCall.arg, 0).result = "false"
  /\ \E q \in 0..(playerCount - 1) :
       q # lastCall.arg /\ catchUnoFailure(State, 0, q, 0).result = "false"

\* C18 (as claimed): when the player in turn a plays down to one card without
\* a UNO declaration and another player then plays a card, a's hand being as
\* it was, every catchUnoFailure call against a returns false
C18_WindowCloses ==
  ~hasEnded =>
    \A i \in CardIndexes, c \in ChosenColors, k \in ShuffleChoices :
      LET a == currentPlayerIndex
          R1 == play(State, i, c, k)
          S1 == R1.S
      IN /\ R1.result = Ok
         /\ ~S1.ended
         /\ Len(S1.hands[a]) = 1
         /\ a \notin S1.uno
         /\ S1.cur # a
         => \A j \in 0..Len(S1.hands[S1.cur]), c2 \in ChosenColors,
               k2 \in ShuffleChoices :
              LET R2 == play(S1, j, c2, k2)
                  S2 == R2.S
              IN /\ R2.result = Ok
                 /\ ~S2.ended
                 /\ S2.hands[a] = S1.hands[a]
                 => \A accuser \in PlayerIndexes, k3 \in ShuffleChoices :
                      catchUnoFailure(S2, accuser, a, k3).result = "false"

\* C19: a UNO declaration made in time protects.  A declaration by a player
\* holding one card, or by the player in turn holding two, is recorded; a
\* recorded declaration survives the play that leaves its player one card and
\* is removed by nothing but a play of that player; and while it is recorded
\* every catchUnoFailure call against that player returns false and changes
\* nothing
C19_UnoProtects ==
  /\ [](~hasEnded =>
          /\ \A p \in 0..(playerCount - 1) :
               \/ Len(playerHands[p]) = 1
               \/ p = currentPlayerIndex /\ Len(playerHands[p]) = 2
               => p \in sayUno(State, p).S.uno
          /\ \A p \in unoSaid, accuser \in PlayerIndexes, k \in ShuffleChoices :
               LET R == catchUnoFailure(State, accuser, p, k)
               IN R.result = "false" /\ R.S = State)
  /\ [][\A p \in unoSaid :
          /\ p \notin unoSaid' =>
               lastCall'.op = "play" /\ lastCall'.player = p
          /\ lastCall'.op = "play" /\ lastCall'.player = p /\ steps' # steps
             /\ Len(playerHands'[p]) = 1
             => p \in unoSaid']_vars

\* C19 witness: a player who declared UNO has played down to one card, the
\* player in turn is their neighbour in the direction of play, and the
\* declaration is still recorded
C19_Witness ==
  /\ lastCall.op = "play"
  /\ ~hasEnded
  /\ lastCall.player \in unoSaid
  /\ Len(playerHands[lastCall.player]) = 1
  /\ currentPlayerIndex = Neighbour(lastCall.player, direction, 1)

\* the Hand at the moment draw() calls reshuffleDeck: the last card of the draw
\* pile has just gone to the player in turn
AtReshuffle ==
  [State EXCEPT !.draw = dealRest(drawPile),
                !.hands[currentPlayerIndex] = Append(@, dealCard(drawPile))]

\* C20 (as claimed): after the reshuffle that a draw() triggers, the discard
\* pile holds exactly one card, the most recently played one (lastPlayedCard,
\* the top of the discard pile before), and every other card of the former
\* discard pile is in the draw pile
C20_ReshuffleKeepsTop ==
  ~hasEnded /\ Len(drawPile) = 1 =>
    \A k \in ShuffleChoices :
      LET B == AtReshuffle
          R == reshuffleDeck(B, k)
      IN /\ Len(R.discard) = 1
         /\ R.discard[1] = lastPlayedCard
         /\ R.discard[1] = top(B.discard)
         /\ \A i \in 1..(Len(B.discard) - 1) :
              \E j \in 1..Len(R.draw) : R.draw[j] = B.discard[i]
         /\ draw(State, k).S.discard = R.discard

\* C21 (as claimed): score() is undefined while the Hand is in progress; once
\* it has ended score() is the sum of the points of the cards held by every
\* player other than the one whose hand is empty (which adds nothing)
C21_ScoreOfLosers ==
  /\ ~hasEnded => score(State) = NoScore
  /\ hasEnded =>
       score(State) = handScore(Flatten([i \in 1..playerCount |->
                                           playerHands[i - 1]]))

(* ------------------------------ C22 ----------------------------------- *)
\* the step is a successful play of the current player's only card, on the
\* current Hand of a Game: the Hand ends because that player's hand is empty
GoesOutInGame ==
  /\ game.currentHand
  /\ steps' = steps + 1
  /\ lastCall'.op = "play"
  /\ lastCall'.result = Ok
  /\ Len(playerHands[currentPlayerIndex]) = 1

\* the Hand as the play that is lastCall' leaves it, under shuffler outcome k
EndedHand(k) == play(State, lastCall'.arg, lastCall'.color, k).S

\* C22 (as claimed): when the current Hand of a Game ends because player p has
\* emptied their hand, the Game's score of p grows by exactly that Hand's
\* score() and no other score changes; afterwards the Game has a new Hand in
\* progress exactly when no score has reached the target
C22_ScoreToWhoWentOut ==
  [][GoesOutInGame =>
       /\ \E k \in ShuffleChoices :
            game'.scores = [game.scores EXCEPT
                              ![currentPlayerIndex] = @ + score(EndedHand(k))]
       /\ (game'.currentHand /\ ~hasEnded')
            <=> (\A q \in DOMAIN game'.scores : game'.scores[q] < game'.targetScore)]_vars

(* ------------------------------ C23 ----------------------------------- *)
\* C23: in every state of a Game currentHand() is undefined exactly when
\* winner() is defined, and a defined currentHand() is a Hand that has not
\* ended; once winner() is defined, winner() and the scores never change
C23_HandIffNoWinner ==
  /\ [](game.currentHand <=> gameWinner(game) = NoPlayer)
  /\ [](game.currentHand => ~hasEnded)
  /\ [][gameWinner(game) # NoPlayer =>
          /\ game'.scores = game.scores
          /\ gameWinner(game') = gameWinner(game)]_vars

\* a Game with the high target that has been won: it has no current Hand and
\* the Hand variables show the Hand that ended last
C23_Witness ==
  /\ game.targetScore = HighTarget
  /\ gameWinner(game) # NoPlayer
  /\ ~game.currentHand
  /\ hasEnded

(* ------------------------------ C24 ----------------------------------- *)
\* the Decks of the Hand
Decks == {drawPile, discardPile}

\* C24 (as claimed): on a Deck with at least one card deal() removes and
\* returns exactly the card top() reported just before, leaving one card
\* fewer (the others in place); on an empty Deck deal() returns undefined and
\* the Deck stays empty; top() leaves the Deck as it is (it reads the cards
\* only)
C24_DealReturnsTop ==
  \A cards \in Decks :
    /\ cards # <<>> =>
         /\ dealCard(cards) = top(cards)
         /\ size(dealRest(cards)) = size(cards) - 1
    /\ cards = <<>> =>
         /\ dealCard(cards) = NoCard
         /\ dealRest(cards) = <<>>

(* ------------------------------ C25 ----------------------------------- *)
\* the cards of the draw pile and of the players' hands
OffDiscard ==
  Flatten([i \in 1..playerCount |-> playerHands[i - 1]]) \o drawPile

\* C25 (as claimed): in every reachable state of a Hand after setup the top of
\* the discard pile is lastPlayedCard, and that card is neither in the draw
\* pile nor in any player's hand
C25_TopIsLastPlayed ==
  /\ top(discardPile) = lastPlayedCard
  /\ \A i \in 1..Len(OffDiscard) : OffDiscard[i].id # lastPlayedCard.id

(* ------------------------------ C26 ----------------------------------- *)
\* the players whose hand is empty
EmptyHanded == {p \in 0..(playerCount - 1) : playerHands[p] = <<>>}

\* C26: with fewer cards dealt than the deck holds (n * cardsPerPlayer below
\* the deck size, 108 for the program's deck), in every reachable state the
\* Hand has ended exactly when some player's hand is empty, every player of a
\* Hand in progress holds at least one card, and never are two hands empty
C26_EndedIffEmptyHand ==
  MaxPlayers * MaxCardsPerPlayer < DeckSize =>
    /\ hasEnded <=> EmptyHanded # {}
    /\ ~hasEnded => \A p \in 0..(playerCount - 1) : Len(playerHands[p]) >= 1
    /\ Cardinality(EmptyHanded) <= 1

\* C26 witness: a Hand that a play ended, after which another call was made:
\* exactly one hand is empty and the others hold cards
C26_Witness ==
  /\ hasEnded
  /\ lastCall.op = "onEnd"
  /\ Cardinality(EmptyHanded) = 1
  /\ playerCount = MaxPlayers

(* ------------------------------ C27 ----------------------------------- *)
\* C27: for a Hand constructed with a dealer in [0, n), in every reachable
\* state, the states after a catchUnoFailure call included, currentPlayerIndex
\* is in [0, n) and direction is +1 or -1
C27_TurnInRange ==
  dealer \in 0..(playerCount - 1) =>
    /\ currentPlayerIndex \in 0..(playerCount - 1)
    /\ direction \in {1, -1}

\* C27 witness: a catchUnoFailure call has just dealt the penalty to the
\* accused, with the direction reversed, and the turn is back with the player
\* after the accused
C27_Witness ==
  /\ lastCall.op = "catchUnoFailure"
  /\ lastCall.result = "true"
  /\ direction = -1
  /\ currentPlayerIndex # lastCall.arg
  /\ Len(playerHands[lastCall.arg]) > 1

(* ------------------------------ C28 ----------------------------------- *)
\* a successful play by the player in turn that leaves that player exactly
\* count cards
LeavesCards(X, count) ==
  Succeeds(X) /\ Len(X.R.S.hands[currentPlayerIndex]) = count

\* after a successful play that leaves the player a number of cards other
\* than one, that player has no recorded declaration
ClearedByPlay ==
  \A X \in PlayCalls :
    Succeeds(X) /\ ~LeavesCards(X, 1) => currentPlayerIndex \notin X.R.S.uno

\* no declaration is removed by drawing: not by draw(), not from the player a
\* play forces to draw, not by the penalty of catchUnoFailure
KeptByDrawing ==
  /\ \A k \in ShuffleChoices : unoSaid \subseteq draw(State, k).S.uno
  /\ \A X \in PlayCalls : unoSaid \ {currentPlayerIndex} \subseteq X.R.S.uno
  /\ \A a \in PlayerIndexes, i \in PlayerIndexes, k \in ShuffleChoices :
       unoSaid \subseteq catchUnoFailure(State, a, i, k).S.uno

\* the player in turn declared UNO holding one card, has drawn a second card
\* since and has made no call after the draw
DeclaredBeforeDraw ==
  /\ lastCall.op = "draw"
  /\ lastCall.player = currentPlayerIndex
  /\ currentPlayerIndex \in unoSaid
  /\ Len(playerHands[currentPlayerIndex]) = 2

PlaysWild(X) == Succeeds(X) /\ PlayedCard(X).type \in {"WILD", "WILD DRAW"}

\* C29 (as claimed): after every successful play of a WILD or WILD DRAW with
\* chosenColor c the played card is lastPlayedCard and has the colour c,
\* whether or not the play empties the player's hand
C29_WildTakesColor ==
  \A X \in PlayCalls :
    PlaysWild(X) =>
      /\ X.R.S.last.id = PlayedCard(X).id
      /\ X.R.S.last.color = X.chosenColor

(* ------------------------------ C30 ----------------------------------- *)
\* C30 (as claimed): the construction of a Hand terminates, whatever the
\* number of players, cardsPerPlayer and the shuffler's permutations: the
\* setup loop stops after finitely many retries, and when the constructor has
\* returned there is a first discard and it is not a WILD or WILD DRAW
C30_SetupTerminates ==
  /\ <>(lastCall.op = "new")
  /\ [](lastCall.op = "new" =>
          /\ lastPlayedCard # NoCard
          /\ lastPlayedCard.type \notin WildTypes
          /\ discardPile = <<lastPlayedCard>>)

(* ------------------------------ C31 ----------------------------------- *)
\* the card indexes of the player in turn for which canPlay answers true
PlayableIndexes ==
  {i \in 0..(Len(playerHands[currentPlayerIndex]) - 1) : canPlay(State, i)}

\* C31 (as claimed): in every reachable in-progress state, for every card
\* index i of the player in turn with canPlay(i) true there is a chosenColor
\* (absent, or a colour) with which play(i, chosenColor) succeeds; WILD and
\* WILD DRAW cards that were played before and came back through a reshuffle
\* are included
C31_PlayableCanBePlayed ==
  ~hasEnded =>
    \A i \in PlayableIndexes :
      \E c \in ChosenColors, k \in ShuffleChoices :
        play(State, i, c, k).result = Ok

(* ------------------------------ C32 ----------------------------------- *)
\* C32 (as claimed): a Hand in progress is never stuck: in every reachable
\* in-progress state the player in turn holds a card that can be played, or a
\* draw() call changes the state (the player gets a card or the turn passes);
\* the states after the draw pile was emptied while the discard pile held a
\* single card are included
C32_NeverStuck ==
  ~hasEnded =>
    \/ canPlayAny(State)
    \/ \A k \in ShuffleChoices : draw(State, k).S # State
====
